---- MODULE Spec2Model ----
(***************************************************************************)
(* StudyFlow (src/script.js): the IndexedDB record store, the in-memory    *)
(* AppState, the UIManager handlers that mutate them, and the stopwatch.   *)
(*                                                                         *)
(* Time is in milliseconds of local wall-clock time.  A calendar date      *)
(* "YYYY-MM-DD" is modelled by its day number, a time "HH:MM" by its       *)
(* minute of the day: both encodings keep the order and the arithmetic     *)
(* the code relies on.  Day d stands for 2024-01-d in the examples.        *)
(* Record ids are positive integers, 0 stands for null / "" / undefined.   *)
(*                                                                         *)
(* Every handler is one action.  The id a form edits (editingSubjectId,    *)
(* editingTaskId, editingSessionId, currentSubjectDetail) is set by the    *)
(* handler that opens the form from a record on the page, so it is an      *)
(* input of the action, drawn from the records in memory.  A store call    *)
(* may fail: the handlers take the outcome of their write (ok) and the     *)
(* number of reads of loadData that succeed (k) as nondeterministic        *)
(* inputs.  pauseTimer is split at its await of the store write, because   *)
(* other handlers can run while that write is pending.                     *)
(***************************************************************************)
EXTENDS Integers, Sequences, FiniteSets, TLC

\* ------------------------------------------------------------------ bounds
MaxIds == 3            \* generateId is called at most this many times
MaxRunSeconds == 90    \* the clock runs this many seconds past StartNow
MaxPending == 2        \* timer commits in flight at once
MaxFailures == 1       \* store calls that fail in one run
StreakSpan == 5        \* the session log of the streak runs spans this many days
MaxPerDay == 2         \* sessions on one day in the session log of the streak runs

\* --------------------------------------------------------------- constants
Null == 0
SecMs == 1000
MinMs == 60 * SecMs
DayMs == 1000 * 60 * 60 * 24
MinSessionSeconds == 60
LoadReads == 4

\* 2024-01-12 23:58:40: the runs of the model cross midnight after 80 s
StartNow == 12 * DayMs + (23 * 60 + 58) * MinMs + 40 * SecMs
ClockSteps == {20 * SecMs, 45 * SecMs + 500}

MaxIntervals == 3

\* a text field's value is the sequence of its characters
Blank == <<>>
Math == <<"M">>
Bio == <<"B">>

\* the values the forms can be filled with
Names == {Blank, <<" ">>, Math, <<" ", "B", " ">>}
Colors == {"#6366f1"}
Descriptions == {Blank, <<" ", " ">>, <<"r">>}
InputDates == {0, 12}
InputTimes == {0 - 1, 600, 601}
GoalNames == {Blank, <<" ">>, <<"E">>}
GoalTargets == {0, 12, 20}
GoalStarts == {0, 10, 12, 20}

\* the session form: every filled form, and the form left empty
SessionForms ==
    {f \in [date : InputDates, startTime : InputTimes, endTime : InputTimes] :
        (f.date = 0 \/ f.startTime = 0 - 1 \/ f.endTime = 0 - 1)
            => (f.date = 0 /\ f.startTime = 0 - 1 /\ f.endTime = 0 - 1)}

VARIABLES
    dbSubjects, dbTasks, dbSessions, dbGoal,      \* the four object stores
    subjects, tasks, sessions, goal,              \* AppState collections
    timerState,                                   \* AppState.timerState
    intervals,                                    \* scheduled setInterval callbacks
    disabled,                                     \* disabled flag of the timer buttons
    pendingSaves,                                 \* timer commits awaiting the store
    now,                                          \* Date.now(), as local wall-clock ms
    tzOffset,                                     \* local time minus UTC, in ms
    idCounter,                                    \* ids generated so far
    failures,                                     \* store calls that failed so far
    lastOp,                                       \* history: the handler that ran last
    hist                                          \* history: the last pause of the timer

dbVars == <<dbSubjects, dbTasks, dbSessions, dbGoal>>
memVars == <<subjects, tasks, sessions, goal>>
timerVars == <<timerState, intervals, disabled, pendingSaves>>
clock == <<now, tzOffset>>
vars == <<dbVars, memVars, timerVars, clock, idCounter, failures, lastOp, hist>>

\* ----------------------------------------------------------------- helpers
NoGoal == [name |-> Blank, targetDate |-> 0, startDate |-> 0]

\* String.prototype.trim: the text without its leading and trailing blanks
RECURSIVE TrimStart(_)
TrimStart(text) ==
    IF text # <<>> /\ Head(text) = " " THEN TrimStart(Tail(text)) ELSE text

RECURSIVE TrimEnd(_)
TrimEnd(text) ==
    IF text # <<>> /\ text[Len(text)] = " "
    THEN TrimEnd(SubSeq(text, 1, Len(text) - 1)) ELSE text

\* the input taken as typed
TrimNothing(text) == text

Trim(text) == TrimEnd(TrimStart(text))
NoPause == 0 - 1

\* hist, while the timer is paused: elapsedSeconds at the pause and whether
\* a commit has succeeded since; failedElapsed: the duration of the last
\* commit the store refused
NoHist == [pausedElapsed |-> NoPause, committed |-> FALSE, failedElapsed |-> NoPause]
EmptyTime == 0 - 1

Ids(coll) == {r.id : r \in coll}

\* DataStore.save: store.put(data) inserts or replaces the record at its key
Put(store, rec) == {r \in store : r.id # rec.id} \cup {rec}

\* a delete over the range of keys up to the key
DeleteUpTo(store, key) == {r \in store : r.id > key}

\* DataStore.delete: store.delete(key); an absent key is no error
Delete(store, key) == {r \in store : r.id # key}

\* AppState.getSubject / tasks.find / sessions.find
Find(coll, id) == CHOOSE r \in coll : r.id = id

getTasksForSubject(subjectId) == {t \in tasks : t.subjectId = subjectId}

getSessionsForSubject(subjectId) == {s \in sessions : s.subjectId = subjectId}

\* sessions.reduce((total, session) => total + session.duration, 0)
RECURSIVE SumDurations(_)
SumDurations(S) ==
    IF S = {} THEN 0
    ELSE LET s == CHOOSE x \in S : TRUE
         IN s.duration + SumDurations(S \ {s})

\* a total over the sessions of every subject
getTotalTimeOfAll(subjectId) == SumDurations(sessions)

getTotalTimeForSubject(subjectId) == SumDurations(getSessionsForSubject(subjectId))

\* AppState.formatDate: the local calendar day of a timestamp
formatDate(t) == t \div DayMs

\* Date.toTimeString().substr(0, 5): the local HH:MM of a timestamp
toTimeString5(t) == (t % DayMs) \div MinMs

\* new Date(`${date}T${time}`): local time
ParseLocal(date, hhmm) == date * DayMs + hhmm * MinMs

\* lastOp: the handler, the id it addressed (for renderDashboard: the streak
\* it displays), and how it ended
Op(name, arg, result) == [op |-> name, arg |-> arg, result |-> result]

\* a store call of the handler fails: its write (ok = FALSE) or a read of
\* the loadData that follows (k < LoadReads)
StoreOutcome(ok, k) ==
    /\ ~ok => k = LoadReads
    /\ IF ok /\ k = LoadReads
       THEN failures' = failures
       ELSE failures < MaxFailures /\ failures' = failures + 1

\* the handler returns before its first store call: no outcome to choose
NoStoreCall(ok, k) == ok /\ k = LoadReads

\* a refresh that forgets the tasks
loadDataWithoutTasks(k) ==
    /\ subjects' = IF k >= 1 THEN dbSubjects' ELSE subjects
    /\ tasks' = tasks
    /\ sessions' = IF k >= 3 THEN dbSessions' ELSE sessions
    /\ goal' = IF k >= 4 THEN dbGoal' ELSE goal

\* StudyFlowApp.loadData: four reads in order; the first failure ends the
\* refresh (the catch swallows it) and leaves the later collections stale
loadData(k) ==
    /\ subjects' = IF k >= 1 THEN dbSubjects' ELSE subjects
    /\ tasks' = IF k >= 2 THEN dbTasks' ELSE tasks
    /\ sessions' = IF k >= 3 THEN dbSessions' ELSE sessions
    /\ goal' = IF k >= 4 THEN dbGoal' ELSE goal

\* the page just loaded: AppState's constructor, and the timer buttons as
\* onTimerSubjectChange leaves them while the select shows its placeholder
InitialTimerState ==
    [subjectId |-> Null, startTime |-> Null, elapsedSeconds |-> 0,
     isRunning |-> FALSE, intervalId |-> Null]

\* the timer buttons as the page's markup loads them: with no subject
\* chosen the timer is idle and none of them can be pressed
AllDisabled == [start |-> TRUE, pause |-> TRUE, reset |-> TRUE]

InitPage ==
    /\ timerState = InitialTimerState
    /\ intervals = {}
    /\ disabled = AllDisabled
    /\ pendingSaves = <<>>
    /\ failures = 0
    /\ lastOp = Op("init", Null, "ok")
    /\ hist = NoHist

InitClock == now = StartNow /\ tzOffset = 0

\* a first visit: init() opened an empty database and loadData read it
Init ==
    /\ InitPage /\ InitClock
    /\ dbSubjects = {} /\ dbTasks = {} /\ dbSessions = {} /\ dbGoal = NoGoal
    /\ subjects = {} /\ tasks = {} /\ sessions = {} /\ goal = NoGoal
    /\ idCounter = 0

\* a later visit: the database holds the subject an earlier saveSubject
\* wrote, and loadData read it
InitOneSubject ==
    /\ InitPage /\ InitClock
    /\ dbSubjects = {[id |-> 1, name |-> Math, color |-> "#6366f1",
                      createdAt |-> StartNow - DayMs]}
    /\ dbTasks = {} /\ dbSessions = {} /\ dbGoal = NoGoal
    /\ subjects = dbSubjects /\ tasks = {} /\ sessions = {} /\ goal = NoGoal
    /\ idCounter = 1

\* ------------------------------------------------------------------- clock
Advance(d) ==
    /\ now + d <= StartNow + MaxRunSeconds * SecMs
    /\ now' = now + d
    /\ lastOp' = Op("advance", Null, "ok")
    /\ UNCHANGED <<dbVars, memVars, timerVars, tzOffset, idCounter, failures, hist>>

\* a handler that returns early, before it changes anything
Refuse(name, id, result) ==
    /\ lastOp' = Op(name, id, result)
    /\ UNCHANGED <<dbVars, memVars, timerVars, clock, idCounter, failures, hist>>

\* ---------------------------------------------------------------- subjects
\* a creation stamp renewed on every save
SubjectCreatedAtNow(editingSubjectId) == now

\* editingSubjectId ? getSubject(editingSubjectId).createdAt : Date.now()
SubjectCreatedAt(editingSubjectId) ==
    IF editingSubjectId # Null
    THEN Find(subjects, editingSubjectId).createdAt
    ELSE now

\* editingSubjectId: null from the add button, else the subject of the open
\* detail view (editCurrentSubject)
saveSubject(editingSubjectId, nameInput, color, ok, k) ==
    LET name == Trim(nameInput)
        editing == editingSubjectId # Null
        id == IF editing THEN editingSubjectId ELSE idCounter + 1
        subjectData == [id |-> id, name |-> name, color |-> color,
                        createdAt |-> SubjectCreatedAt(editingSubjectId)]
    IN
    /\ editing => editingSubjectId \in Ids(subjects)
    /\ IF name = Blank THEN NoStoreCall(ok, k) /\ Refuse("saveSubject", editingSubjectId, "rejected")
       ELSE
        /\ editing \/ idCounter < MaxIds
        /\ idCounter' = IF editing THEN idCounter ELSE idCounter + 1
        /\ StoreOutcome(ok, k)
        /\ IF ok
           THEN /\ dbSubjects' = Put(dbSubjects, subjectData)
                /\ UNCHANGED <<dbTasks, dbSessions, dbGoal>>
                /\ loadData(k)
                /\ lastOp' = Op("saveSubject", id, "ok")
           ELSE /\ UNCHANGED <<dbVars, memVars>>
                /\ lastOp' = Op("saveSubject", id, "failed")
        /\ UNCHANGED <<timerVars, clock, hist>>

\* the deletes of deleteCurrentSubject in the order the code issues them:
\* the tasks of the subject, its sessions, then the subject (ids ascending,
\* the order getAll returned them in)
RECURSIVE SortedSeq(_)
SortedSeq(S) ==
    IF S = {} THEN <<>>
    ELSE LET m == CHOOSE x \in S : \A y \in S : x <= y
         IN <<m>> \o SortedSeq(S \ {m})

\* a cascade that removes the parent first
CascadeDeletesParentFirst(subjectId) ==
    <<[store |-> "subjects", key |-> subjectId]>>
    \o [i \in 1..Cardinality(getTasksForSubject(subjectId)) |->
        [store |-> "tasks", key |-> SortedSeq(Ids(getTasksForSubject(subjectId)))[i]]]
    \o [i \in 1..Cardinality(getSessionsForSubject(subjectId)) |->
        [store |-> "sessions", key |-> SortedSeq(Ids(getSessionsForSubject(subjectId)))[i]]]

\* the store calls of deleteCurrentSubject, in the order it awaits them
CascadeDeletes(subjectId) ==
    [i \in 1..Cardinality(getTasksForSubject(subjectId)) |->
        [store |-> "tasks", key |-> SortedSeq(Ids(getTasksForSubject(subjectId)))[i]]]
    \o [i \in 1..Cardinality(getSessionsForSubject(subjectId)) |->
        [store |-> "sessions", key |-> SortedSeq(Ids(getSessionsForSubject(subjectId)))[i]]]
    \o <<[store |-> "subjects", key |-> subjectId]>>

\* the keys of one store among the first n deletes of a sequence
DeletedKeys(deletes, n, store) ==
    {deletes[i].key : i \in {j \in 1..n : deletes[j].store = store}}

\* deleteCurrentSubject on the subject of the open detail view: n deletes
\* succeed; if one fails (n < all) the handler throws there and loadData is
\* not reached
deleteCurrentSubject(subjectId, n, k) ==
    LET deletes == CascadeDeletes(subjectId)
        all == Len(deletes)
    IN
    /\ subjectId \in Ids(subjects)
    /\ n \in 0..all
    /\ StoreOutcome(n = all, k)
    /\ dbTasks' = {t \in dbTasks : t.id \notin DeletedKeys(deletes, n, "tasks")}
    /\ dbSessions' = {s \in dbSessions : s.id \notin DeletedKeys(deletes, n, "sessions")}
    /\ dbSubjects' = {s \in dbSubjects : s.id \notin DeletedKeys(deletes, n, "subjects")}
    /\ UNCHANGED dbGoal
    /\ IF n = all
       THEN /\ loadData(k)
            /\ lastOp' = Op("deleteCurrentSubject", subjectId, "ok")
       ELSE /\ UNCHANGED memVars
            /\ lastOp' = Op("deleteCurrentSubject", subjectId, "failed")
    /\ UNCHANGED <<timerVars, clock, idCounter, hist>>

\* ------------------------------------------------------------------- tasks
\* currentSubjectDetail: the subject of the open detail view; editingTaskId:
\* null from the add button, else one of the tasks the view lists
saveTask(currentSubjectDetail, editingTaskId, descriptionInput, ok, k) ==
    LET description == Trim(descriptionInput)
        editing == editingTaskId # Null
        id == IF editing THEN editingTaskId ELSE idCounter + 1
        old == Find(tasks, editingTaskId)
        taskData == [id |-> id, subjectId |-> currentSubjectDetail,
                     description |-> description,
                     completed |-> IF editing THEN old.completed ELSE FALSE,
                     createdAt |-> IF editing THEN old.createdAt ELSE now]
    IN
    /\ currentSubjectDetail \in Ids(subjects)
    /\ editing => editingTaskId \in Ids(getTasksForSubject(currentSubjectDetail))
    /\ IF description = Blank THEN NoStoreCall(ok, k) /\ Refuse("saveTask", editingTaskId, "rejected")
       ELSE
        /\ editing \/ idCounter < MaxIds
        /\ idCounter' = IF editing THEN idCounter ELSE idCounter + 1
        /\ StoreOutcome(ok, k)
        /\ IF ok
           THEN /\ dbTasks' = Put(dbTasks, taskData)
                /\ UNCHANGED <<dbSubjects, dbSessions, dbGoal>>
                /\ loadData(k)
                /\ lastOp' = Op("saveTask", id, "ok")
           ELSE /\ UNCHANGED <<dbVars, memVars>>
                /\ lastOp' = Op("saveTask", id, "failed")
        /\ UNCHANGED <<timerVars, clock, hist>>

\* the tasks a detail view lists: those of a subject in memory
ListedTasks == {t \in tasks : t.subjectId \in Ids(subjects)}

\* toggleTask flips the in-memory record before it awaits the write
toggleTask(taskId, ok, k) ==
    LET task == Find(tasks, taskId)
        flipped == [task EXCEPT !.completed = ~task.completed]
    IN
    /\ taskId \in Ids(ListedTasks)
    /\ StoreOutcome(ok, k)
    /\ IF ok
       THEN /\ dbTasks' = Put(dbTasks, flipped)
            /\ subjects' = IF k >= 1 THEN dbSubjects ELSE subjects
            /\ tasks' = IF k >= 2 THEN dbTasks' ELSE Put(tasks, flipped)
            /\ sessions' = IF k >= 3 THEN dbSessions ELSE sessions
            /\ goal' = IF k >= 4 THEN dbGoal ELSE goal
            /\ lastOp' = Op("toggleTask", taskId, "ok")
       ELSE /\ dbTasks' = dbTasks
            /\ tasks' = Put(tasks, flipped)
            /\ UNCHANGED <<subjects, sessions, goal>>
            /\ lastOp' = Op("toggleTask", taskId, "failed")
    /\ UNCHANGED <<dbSubjects, dbSessions, dbGoal, timerVars, clock, idCounter, hist>>

deleteTask(taskId, ok, k) ==
    /\ taskId \in Ids(ListedTasks)
    /\ StoreOutcome(ok, k)
    /\ IF ok
       THEN /\ dbTasks' = Delete(dbTasks, taskId)
            /\ UNCHANGED <<dbSubjects, dbSessions, dbGoal>>
            /\ loadData(k)
            /\ lastOp' = Op("deleteTask", taskId, "ok")
       ELSE /\ UNCHANGED <<dbVars, memVars>>
            /\ lastOp' = Op("deleteTask", taskId, "failed")
    /\ UNCHANGED <<timerVars, clock, idCounter, hist>>

\* -------------------------------------------------------------------- goal
saveGoal(nameInput, targetDate, startDate, ok, k) ==
    LET name == Trim(nameInput)
        goalData == [name |-> name, targetDate |-> targetDate,
                     startDate |-> IF startDate # Null THEN startDate
                                   ELSE formatDate(now)]
    IN
    IF name = Blank \/ targetDate = Null THEN NoStoreCall(ok, k) /\ Refuse("saveGoal", Null, "rejected")
    ELSE
        /\ StoreOutcome(ok, k)
        /\ IF ok
           THEN /\ dbGoal' = goalData
                /\ UNCHANGED <<dbSubjects, dbTasks, dbSessions>>
                /\ loadData(k)
                /\ lastOp' = Op("saveGoal", Null, "ok")
           ELSE /\ UNCHANGED <<dbVars, memVars>>
                /\ lastOp' = Op("saveGoal", Null, "failed")
        /\ UNCHANGED <<timerVars, clock, idCounter, hist>>

resetGoal(ok, k) ==
    /\ StoreOutcome(ok, k)
    /\ IF ok
       THEN /\ dbGoal' = NoGoal
            /\ UNCHANGED <<dbSubjects, dbTasks, dbSessions>>
            /\ loadData(k)
            /\ lastOp' = Op("resetGoal", Null, "ok")
       ELSE /\ UNCHANGED <<dbVars, memVars>>
            /\ lastOp' = Op("resetGoal", Null, "failed")
    /\ UNCHANGED <<timerVars, clock, idCounter, hist>>

\* ---------------------------------------------------------------- sessions
\* Math.floor((end - start) / 1000) of saveSession
\* a duration left in minutes
SessionDurationInMinutes(date, startTime, endTime) ==
    (ParseLocal(date, endTime) - ParseLocal(date, startTime)) \div MinMs

SessionDuration(date, startTime, endTime) ==
    (ParseLocal(date, endTime) - ParseLocal(date, startTime)) \div SecMs

\* a guard that lets a zero duration through
DurationRejectedNegativeOnly(duration) == duration < 0

\* if (duration <= 0) { alert(...); return; }
DurationRejected(duration) == duration <= 0

\* editingSessionId: the session whose edit button opened the form;
\* subjectId: an option of the form's select, the subjects in memory
saveSession(editingSessionId, subjectId, date, startTime, endTime, ok, k) ==
    LET sessionId == editingSessionId
        duration == SessionDuration(date, startTime, endTime)
        sessionData == [id |-> sessionId, subjectId |-> subjectId, date |-> date,
                        startTime |-> startTime, endTime |-> endTime,
                        duration |-> duration]
    IN
    /\ sessionId \in Ids(sessions)
    /\ subjectId \in Ids(subjects)
    /\ IF date = Null \/ startTime = EmptyTime \/ endTime = EmptyTime
       THEN NoStoreCall(ok, k) /\ Refuse("saveSession", sessionId, "empty")
       ELSE IF DurationRejected(duration)
       THEN NoStoreCall(ok, k) /\ Refuse("saveSession", sessionId, "rejected")
       ELSE
        /\ StoreOutcome(ok, k)
        /\ IF ok
           THEN /\ dbSessions' = Put(dbSessions, sessionData)
                /\ UNCHANGED <<dbSubjects, dbTasks, dbGoal>>
                /\ loadData(k)
                /\ lastOp' = Op("saveSession", sessionId, "ok")
           ELSE /\ UNCHANGED <<dbVars, memVars>>
                /\ lastOp' = Op("saveSession", sessionId, "failed")
        /\ UNCHANGED <<timerVars, clock, idCounter, hist>>

\* the edit button of a session, then Save with the form as openSessionModal
\* filled it from the session in memory
openSessionModalThenSave(sessionId, ok, k) ==
    /\ sessionId \in Ids(sessions)
    /\ LET session == Find(sessions, sessionId)
       IN saveSession(sessionId, session.subjectId, session.date,
                      session.startTime, session.endTime, ok, k)

deleteSession(sessionId, ok, k) ==
    /\ sessionId \in Ids(sessions)
    /\ StoreOutcome(ok, k)
    /\ IF ok
       THEN /\ dbSessions' = Delete(dbSessions, sessionId)
            /\ UNCHANGED <<dbSubjects, dbTasks, dbGoal>>
            /\ loadData(k)
            /\ lastOp' = Op("deleteSession", sessionId, "ok")
       ELSE /\ UNCHANGED <<dbVars, memVars>>
            /\ lastOp' = Op("deleteSession", sessionId, "failed")
    /\ UNCHANGED <<timerVars, clock, idCounter, hist>>

\* ------------------------------------------------------------------- timer
\* the change handler of the subject select; "" is the placeholder option
\* a change handler that rearms the timer for the subject it is given
onTimerSubjectChangeRearms(subjectId) ==
    /\ subjectId \in Ids(subjects) \cup {Null}
    /\ IF subjectId # Null
       THEN /\ timerState' = [timerState EXCEPT !.subjectId = subjectId,
                                                !.elapsedSeconds = 0,
                                                !.startTime = now]
            /\ disabled' = [disabled EXCEPT !.start = FALSE]
       ELSE /\ timerState' = timerState
            /\ disabled' = [start |-> TRUE, pause |-> TRUE, reset |-> TRUE]
    /\ lastOp' = Op("onTimerSubjectChange", subjectId, "ok")
    /\ UNCHANGED <<dbVars, memVars, intervals, pendingSaves, clock, idCounter,
                   failures, hist>>

\* a change handler that enables Start whatever option is chosen
onTimerSubjectChangeEnables(subjectId) ==
    /\ subjectId \in Ids(subjects) \cup {Null}
    /\ timerState' = IF subjectId # Null
                     THEN [timerState EXCEPT !.subjectId = subjectId]
                     ELSE timerState
    /\ disabled' = [disabled EXCEPT !.start = FALSE]
    /\ lastOp' = Op("onTimerSubjectChange", subjectId, "ok")
    /\ UNCHANGED <<dbVars, memVars, intervals, pendingSaves, clock, idCounter,
                   failures, hist>>

onTimerSubjectChange(subjectId) ==
    /\ subjectId \in Ids(subjects) \cup {Null}
    /\ IF subjectId # Null
       THEN /\ timerState' = [timerState EXCEPT !.subjectId = subjectId]
            /\ disabled' = [disabled EXCEPT !.start = FALSE]
       ELSE /\ timerState' = timerState
            /\ disabled' = [start |-> TRUE, pause |-> TRUE, reset |-> TRUE]
    /\ lastOp' = Op("onTimerSubjectChange", subjectId, "ok")
    /\ UNCHANGED <<dbVars, memVars, intervals, pendingSaves, clock, idCounter,
                   failures, hist>>

\* setInterval returns an id no scheduled callback has
NewIntervalId ==
    CHOOSE i \in 1..(Cardinality(intervals) + 2) :
        i \notin intervals /\ i # timerState.intervalId

\* a start that forgets the elapsed seconds
ResumeFromZero(t, elapsedSeconds) == t

\* state.startTime = Date.now() - (state.elapsedSeconds * 1000)
ResumeStartTime(t, elapsedSeconds) == t - (elapsedSeconds * SecMs)

\* Math.floor((Date.now() - state.startTime) / 1000)
ElapsedAt(t, startTime) == (t - startTime) \div SecMs

\* a start without the isRunning test
startTimerUnguarded ==
    /\ ~disabled.start
    /\ timerState' = [timerState EXCEPT
                        !.isRunning = TRUE,
                        !.startTime = ResumeStartTime(now, timerState.elapsedSeconds),
                        !.intervalId = NewIntervalId]
    /\ intervals' = intervals \cup {NewIntervalId}
    /\ disabled' = [start |-> TRUE, pause |-> FALSE, reset |-> FALSE]
    /\ hist' = [hist EXCEPT !.pausedElapsed = NoPause, !.committed = FALSE]
    /\ lastOp' = Op("startTimer", timerState.subjectId, "ok")
    /\ UNCHANGED <<dbVars, memVars, pendingSaves, clock, idCounter, failures>>

startTimer ==
    /\ ~disabled.start
    /\ IF ~timerState.isRunning
       THEN /\ timerState' = [timerState EXCEPT
                                !.isRunning = TRUE,
                                !.startTime = ResumeStartTime(now, timerState.elapsedSeconds),
                                !.intervalId = NewIntervalId]
            /\ intervals' = intervals \cup {NewIntervalId}
            /\ disabled' = [start |-> TRUE, pause |-> FALSE, reset |-> FALSE]
            /\ hist' = [hist EXCEPT !.pausedElapsed = NoPause, !.committed = FALSE]
            /\ lastOp' = Op("startTimer", timerState.subjectId, "ok")
       ELSE /\ UNCHANGED <<timerState, intervals, disabled, hist>>
            /\ lastOp' = Op("startTimer", timerState.subjectId, "noop")
    /\ UNCHANGED <<dbVars, memVars, pendingSaves, clock, idCounter, failures>>

\* the setInterval callback; the browser runs it when it gets to it
tick(i) ==
    /\ i \in intervals
    /\ timerState' = [timerState EXCEPT
                        !.elapsedSeconds = ElapsedAt(now, timerState.startTime)]
    /\ lastOp' = Op("tick", i, "ok")
    /\ UNCHANGED <<dbVars, memVars, intervals, disabled, pendingSaves,
                   clock, idCounter, failures, hist>>

\* a threshold that discards the run of exactly one minute
TooShortInclusive(elapsedSeconds) == elapsedSeconds <= MinSessionSeconds

\* a commit without the one-minute threshold
TooShortNever(elapsedSeconds) == elapsedSeconds < 0

\* if (state.elapsedSeconds < 60) return;
TooShort(elapsedSeconds) == elapsedSeconds < MinSessionSeconds

\* the sessionData of saveTimerSession
TimerSessionData(id, state, t) ==
    [id |-> id, subjectId |-> state.subjectId, date |-> formatDate(t),
     startTime |-> toTimeString5(state.startTime), endTime |-> toTimeString5(t),
     duration |-> state.elapsedSeconds]

\* a pause that throws a run of under a minute away
pauseTimerDiscardsShort ==
    /\ ~disabled.pause
    /\ IF ~timerState.isRunning
       THEN /\ UNCHANGED <<timerState, intervals, disabled, pendingSaves, idCounter, hist>>
            /\ lastOp' = Op("pauseTimer", timerState.subjectId, "noop")
       ELSE /\ intervals' = intervals \ {timerState.intervalId}
            /\ hist' = [hist EXCEPT !.pausedElapsed = timerState.elapsedSeconds,
                                     !.committed = FALSE]
            /\ IF TooShort(timerState.elapsedSeconds)
               THEN /\ timerState' = [timerState EXCEPT !.isRunning = FALSE,
                                                        !.elapsedSeconds = 0]
                    /\ disabled' = [disabled EXCEPT !.start = FALSE, !.pause = TRUE]
                    /\ UNCHANGED <<pendingSaves, idCounter>>
                    /\ lastOp' = Op("pauseTimer", timerState.subjectId, "short")
               ELSE /\ timerState' = [timerState EXCEPT !.isRunning = FALSE]
                    /\ idCounter < MaxIds
                    /\ Len(pendingSaves) < MaxPending
                    /\ idCounter' = idCounter + 1
                    /\ pendingSaves' = Append(pendingSaves,
                            TimerSessionData(idCounter + 1, timerState, now))
                    /\ UNCHANGED disabled
                    /\ lastOp' = Op("pauseTimer", timerState.subjectId, "ok")
    /\ UNCHANGED <<dbVars, memVars, clock, failures>>

\* a pause without the isRunning test
pauseTimerUnguarded ==
    /\ ~disabled.pause
    /\ timerState' = [timerState EXCEPT !.isRunning = FALSE]
    /\ intervals' = intervals \ {timerState.intervalId}
    /\ hist' = [hist EXCEPT !.pausedElapsed = timerState.elapsedSeconds,
                             !.committed = FALSE]
    /\ IF TooShort(timerState.elapsedSeconds)
       THEN /\ disabled' = [disabled EXCEPT !.start = FALSE, !.pause = TRUE]
            /\ UNCHANGED <<pendingSaves, idCounter>>
            /\ lastOp' = Op("pauseTimer", timerState.subjectId, "short")
       ELSE /\ idCounter < MaxIds
            /\ Len(pendingSaves) < MaxPending
            /\ idCounter' = idCounter + 1
            /\ pendingSaves' = Append(pendingSaves,
                    TimerSessionData(idCounter + 1, timerState, now))
            /\ UNCHANGED disabled
            /\ lastOp' = Op("pauseTimer", timerState.subjectId, "ok")
    /\ UNCHANGED <<dbVars, memVars, clock, failures>>

\* pauseTimer up to the await of dataStore.save in saveTimerSession; when
\* saveTimerSession returns early, pauseTimer runs to its end
pauseTimer ==
    /\ ~disabled.pause
    /\ IF ~timerState.isRunning
       THEN /\ UNCHANGED <<timerState, intervals, disabled, pendingSaves, idCounter, hist>>
            /\ lastOp' = Op("pauseTimer", timerState.subjectId, "noop")
       ELSE /\ timerState' = [timerState EXCEPT !.isRunning = FALSE]
            /\ intervals' = intervals \ {timerState.intervalId}
            /\ hist' = [hist EXCEPT !.pausedElapsed = timerState.elapsedSeconds,
                                     !.committed = FALSE]
            /\ IF TooShort(timerState.elapsedSeconds)
               THEN /\ disabled' = [disabled EXCEPT !.start = FALSE, !.pause = TRUE]
                    /\ UNCHANGED <<pendingSaves, idCounter>>
                    /\ lastOp' = Op("pauseTimer", timerState.subjectId, "short")
               ELSE /\ idCounter < MaxIds
                    /\ Len(pendingSaves) < MaxPending
                    /\ idCounter' = idCounter + 1
                    /\ pendingSaves' = Append(pendingSaves,
                            TimerSessionData(idCounter + 1, timerState, now))
                    /\ UNCHANGED disabled
                    /\ lastOp' = Op("pauseTimer", timerState.subjectId, "ok")
    /\ UNCHANGED <<dbVars, memVars, clock, failures>>

\* a commit that resets the timer whether or not the store took the record
commitCompleteResetsAlways(ok, k) ==
    /\ pendingSaves # <<>>
    /\ pendingSaves' = Tail(pendingSaves)
    /\ StoreOutcome(ok, k)
    /\ dbSessions' = IF ok THEN Put(dbSessions, Head(pendingSaves)) ELSE dbSessions
    /\ UNCHANGED <<dbSubjects, dbTasks, dbGoal>>
    /\ loadData(IF ok THEN k ELSE 0)
    /\ timerState' = [timerState EXCEPT !.elapsedSeconds = 0, !.startTime = now]
    /\ disabled' = [disabled EXCEPT !.start = FALSE, !.pause = TRUE]
    /\ hist' = IF ok THEN [hist EXCEPT !.committed = (hist.pausedElapsed # NoPause)]
               ELSE [hist EXCEPT !.failedElapsed = Head(pendingSaves).duration]
    /\ lastOp' = Op("commitComplete", Head(pendingSaves).id, IF ok THEN "ok" ELSE "failed")
    /\ UNCHANGED <<intervals, clock, idCounter>>

\* the rest of saveTimerSession and of pauseTimer, once the store answers the
\* oldest pending write
commitComplete(ok, k) ==
    /\ pendingSaves # <<>>
    /\ pendingSaves' = Tail(pendingSaves)
    /\ StoreOutcome(ok, k)
    /\ IF ok
       THEN /\ dbSessions' = Put(dbSessions, Head(pendingSaves))
            /\ UNCHANGED <<dbSubjects, dbTasks, dbGoal>>
            /\ loadData(k)
            /\ timerState' = [timerState EXCEPT !.elapsedSeconds = 0, !.startTime = now]
            /\ disabled' = [disabled EXCEPT !.start = FALSE, !.pause = TRUE]
            /\ hist' = [hist EXCEPT !.committed = (hist.pausedElapsed # NoPause)]
            /\ lastOp' = Op("commitComplete", Head(pendingSaves).id, "ok")
       ELSE /\ UNCHANGED <<dbVars, memVars, timerState, disabled>>
            /\ hist' = [hist EXCEPT !.failedElapsed = Head(pendingSaves).duration]
            /\ lastOp' = Op("commitComplete", Head(pendingSaves).id, "failed")
    /\ UNCHANGED <<intervals, clock, idCounter>>

\* a reset that leaves the interval scheduled
resetTimerKeepsInterval ==
    /\ ~disabled.reset
    /\ timerState' = [timerState EXCEPT !.isRunning = FALSE, !.startTime = Null,
                                        !.elapsedSeconds = 0]
    /\ disabled' = [start |-> FALSE, pause |-> TRUE, reset |-> TRUE]
    /\ hist' = NoHist
    /\ lastOp' = Op("resetTimer", timerState.subjectId, "ok")
    /\ UNCHANGED <<dbVars, memVars, intervals, pendingSaves, clock, idCounter, failures>>

\* a reset that first saves the run, as a pause does
resetTimerCommits ==
    /\ ~disabled.reset
    /\ intervals' = IF timerState.isRunning
                    THEN intervals \ {timerState.intervalId} ELSE intervals
    /\ timerState' = [timerState EXCEPT !.isRunning = FALSE, !.startTime = Null,
                                        !.elapsedSeconds = 0]
    /\ disabled' = [start |-> FALSE, pause |-> TRUE, reset |-> TRUE]
    /\ hist' = NoHist
    /\ lastOp' = Op("resetTimer", timerState.subjectId, "ok")
    /\ IF timerState.isRunning /\ ~TooShort(timerState.elapsedSeconds)
          /\ idCounter < MaxIds /\ Len(pendingSaves) < MaxPending
       THEN /\ idCounter' = idCounter + 1
            /\ pendingSaves' = Append(pendingSaves,
                    TimerSessionData(idCounter + 1, timerState, now))
       ELSE UNCHANGED <<pendingSaves, idCounter>>
    /\ UNCHANGED <<dbVars, memVars, clock, failures>>

resetTimer ==
    /\ ~disabled.reset
    /\ intervals' = IF timerState.isRunning
                    THEN intervals \ {timerState.intervalId} ELSE intervals
    /\ timerState' = [timerState EXCEPT !.isRunning = FALSE, !.startTime = Null,
                                        !.elapsedSeconds = 0]
    /\ disabled' = [start |-> FALSE, pause |-> TRUE, reset |-> TRUE]
    /\ hist' = NoHist
    /\ lastOp' = Op("resetTimer", timerState.subjectId, "ok")
    /\ UNCHANGED <<dbVars, memVars, pendingSaves, clock, idCounter, failures>>

\* ------------------------------------------------------------------ reload
\* the records of the first n elements of a sequence of writes, put in order
RECURSIVE PutAll(_, _, _)
PutAll(store, writes, n) ==
    IF n = 0 THEN store
    ELSE Put(PutAll(store, writes, n - 1), writes[n])

\* the page is reloaded: the document and its AppState are discarded, the
\* first n of the writes in flight still reach the store, and
\* DOMContentLoaded builds a new StudyFlowApp whose init() reads the store
\* (k reads succeed) into the empty collections of a new AppState
reload(n, k) ==
    /\ n \in 0..Len(pendingSaves)
    /\ StoreOutcome(TRUE, k)
    /\ dbSessions' = PutAll(dbSessions, pendingSaves, n)
    /\ UNCHANGED <<dbSubjects, dbTasks, dbGoal>>
    /\ subjects' = IF k >= 1 THEN dbSubjects ELSE {}
    /\ tasks' = IF k >= 2 THEN dbTasks ELSE {}
    /\ sessions' = IF k >= 3 THEN dbSessions' ELSE {}
    /\ goal' = IF k >= 4 THEN dbGoal ELSE NoGoal
    /\ timerState' = InitialTimerState
    /\ intervals' = {}
    /\ disabled' = AllDisabled
    /\ pendingSaves' = <<>>
    /\ hist' = NoHist
    /\ lastOp' = Op("reload", Null, "ok")
    /\ UNCHANGED <<clock, idCounter>>

\* ------------------------------------------------------------------ streak
DatesWithSessions == {s.date : s \in sessions}

\* datesWithSessions[0] after the descending sort
LatestDate(D) == CHOOSE d \in D : \A e \in D : e <= d

\* new Date("YYYY-MM-DD") is midnight UTC of that date
ParseUTC(date) == date * DayMs + tzOffset

\* Math.floor((today - latestDateObj) / (1000 * 60 * 60 * 24))
DaysDiff(latestDate) == (now - ParseUTC(latestDate)) \div DayMs

\* a walk that steps over the days without a session
RECURSIVE CountBackOverGaps(_, _, _, _)
CountBackOverGaps(D, checkDate, i, streak) ==
    IF i < Cardinality(D)
    THEN CountBackOverGaps(D, checkDate - 1, i + 1,
                           IF checkDate \in D THEN streak + 1 ELSE streak)
    ELSE streak

\* the loop of calculateStreak: at most one round per distinct date, back
\* from today, until a day without a session
RECURSIVE CountBack(_, _, _, _)
CountBack(D, checkDate, i, streak) ==
    IF i < Cardinality(D) /\ checkDate \in D
    THEN CountBack(D, checkDate - 1, i + 1, streak + 1)
    ELSE streak

\* a streak counted back from the latest session date, whatever its age
calculateStreakFromLatest ==
    IF sessions = {} THEN 0
    ELSE CountBack(DatesWithSessions, LatestDate(DatesWithSessions), 0, 0)

calculateStreak ==
    IF sessions = {} THEN 0
    ELSE IF DaysDiff(LatestDate(DatesWithSessions)) > 1 THEN 0
    ELSE CountBack(DatesWithSessions, formatDate(now), 0, 0)

\* renderDashboard shows the streak of the sessions in memory
renderDashboard ==
    /\ lastOp' = Op("renderDashboard", calculateStreak, "ok")
    /\ UNCHANGED <<dbVars, memVars, timerVars, clock, idCounter, failures, hist>>

\* the session logs of the streak runs: up to MaxPerDay sessions on each of
\* the days 9 .. 9 + StreakSpan - 1, read at some time of day 12 to 14, west
\* of, at, or east of Greenwich
StreakDays == 9..(9 + StreakSpan - 1)
StreakTodays == 12..14
StreakTimes == {30 * MinMs, 12 * 60 * MinMs, (23 * 60 + 30) * MinMs}
TzOffsets == {0 - 8 * 60 * MinMs, 0, (5 * 60 + 30) * MinMs}

SessionLog(count) ==
    {[id |-> 10 * d + j, subjectId |-> 1, date |-> d, startTime |-> 600,
      endTime |-> 601, duration |-> 60] : d \in StreakDays, j \in 1..MaxPerDay}
    \ {r \in [id : 1..200, subjectId : {1}, date : StreakDays, startTime : {600},
              endTime : {601}, duration : {60}] : r.id - 10 * r.date > count[r.date]}

\* ------------------------------------------------------------- goal panel
\* the numbers of renderGoal, for a goal with a target date; new Date() of
\* a date string is midnight UTC
GoalTotalTime == ParseUTC(goal.targetDate) - ParseUTC(goal.startDate)
GoalElapsed == now - ParseUTC(goal.startDate)
GoalRemaining == ParseUTC(goal.targetDate) - now

\* Math.ceil(a / b) for b > 0
CeilDiv(a, b) == 0 - ((0 - a) \div b)

Max(a, b) == IF a >= b THEN a ELSE b
Min(a, b) == IF a <= b THEN a ELSE b

\* Math.max(0, Math.ceil(remaining / (1000 * 60 * 60 * 24)))
daysRemaining == Max(0, CeilDiv(GoalRemaining, DayMs))

\* Math.max(0, Math.ceil(daysRemaining / 7))
weeksRemaining == Max(0, CeilDiv(daysRemaining, 7))

\* the value "NaN" of a number
NaN == 0 - 1

Abs(a) == IF a >= 0 THEN a ELSE 0 - a

RECURSIVE GCD(_, _)
GCD(a, b) == IF b = 0 THEN a ELSE GCD(b, a % b)

\* Math.min(100, Math.max(0, (elapsed / totalTime) * 100)) as toFixed(0)
\* prints it.  Division by zero gives Infinity, -Infinity or (0 / 0) NaN;
\* Math.max and Math.min return NaN when an argument is NaN.  Otherwise the
\* quotient is num / den with den > 0, clamped, rounded half up; elapsed and
\* totalTime are first reduced by their common divisor, which keeps the
\* quotient and keeps the products within 32-bit integers.
percentElapsed ==
    IF GoalTotalTime = 0
    THEN IF GoalElapsed > 0 THEN 100
         ELSE IF GoalElapsed < 0 THEN 0
         ELSE NaN
    ELSE LET g == GCD(Abs(GoalElapsed), Abs(GoalTotalTime))
             e == GoalElapsed \div g
             t == GoalTotalTime \div g
             num == IF t > 0 THEN e * 100 ELSE (0 - e) * 100
             den == Abs(t)
         IN IF num <= 0 THEN 0
            ELSE IF num >= 100 * den THEN 100
            ELSE (2 * num + den) \div (2 * den)

\* renderGoal: without goal or target date it shows "--" and returns;
\* lastOp keeps the percentage it prints
renderGoal ==
    /\ IF goal = NoGoal \/ goal.targetDate = Null
       THEN lastOp' = Op("renderGoal", Null, "none")
       ELSE lastOp' = Op("renderGoal", percentElapsed, "ok")
    /\ UNCHANGED <<dbVars, memVars, timerVars, clock, idCounter, failures, hist>>

\* ---------------------------------------------------------- specifications
TimerNext ==
    \/ \E d \in ClockSteps : Advance(d)
    \/ \E id \in 0..MaxIds : onTimerSubjectChange(id)
    \/ startTimer
    \/ \E i \in 1..MaxIntervals : tick(i)
    \/ pauseTimer
    \/ \E ok \in BOOLEAN, k \in 0..LoadReads : commitComplete(ok, k)
    \/ resetTimer

SessionNext ==
    \/ \E id \in 1..MaxIds, subjectId \in 1..MaxIds, form \in SessionForms,
          ok \in BOOLEAN, k \in 0..LoadReads :
            saveSession(id, subjectId, form.date, form.startTime, form.endTime, ok, k)
    \/ \E id \in 1..MaxIds, ok \in BOOLEAN, k \in 0..LoadReads : deleteSession(id, ok, k)

SubjectNext ==
    \/ \E id \in 0..MaxIds, name \in Names, color \in Colors,
          ok \in BOOLEAN, k \in 0..LoadReads : saveSubject(id, name, color, ok, k)
    \/ \E id \in 1..MaxIds, n \in 0..MaxIds, k \in 0..LoadReads :
            deleteCurrentSubject(id, n, k)

TaskNext ==
    \/ \E subjectId \in 1..MaxIds, id \in 0..MaxIds, d \in Descriptions,
          ok \in BOOLEAN, k \in 0..LoadReads : saveTask(subjectId, id, d, ok, k)
    \/ \E id \in 1..MaxIds, ok \in BOOLEAN, k \in 0..LoadReads : toggleTask(id, ok, k)
    \/ \E id \in 1..MaxIds, ok \in BOOLEAN, k \in 0..LoadReads : deleteTask(id, ok, k)

GoalNext ==
    \/ \E name \in GoalNames, target \in GoalTargets, start \in GoalStarts,
          ok \in BOOLEAN, k \in 0..LoadReads : saveGoal(name, target, start, ok, k)
    \/ \E ok \in BOOLEAN, k \in 0..LoadReads : resetGoal(ok, k)

ReloadNext == \E n \in 0..MaxPending, k \in 0..LoadReads : reload(n, k)

\* the whole application
Next == TimerNext \/ SessionNext \/ SubjectNext \/ TaskNext \/ GoalNext \/ ReloadNext

Spec == Init /\ [][Next]_vars

\* the stopwatch alone, on a subject that exists
TimerSpec == InitOneSubject /\ [][TimerNext]_vars

\* the stopwatch and the session form: the two writers of the sessions store
WriterNext ==
    \/ TimerNext
    \/ \E id \in 1..MaxIds, subjectId \in 1..MaxIds, form \in SessionForms,
          ok \in BOOLEAN, k \in 0..LoadReads :
            saveSession(id, subjectId, form.date, form.startTime, form.endTime, ok, k)

SessionSpec == InitOneSubject /\ [][WriterNext]_vars

\* the session form alone, on a later visit: the store holds two sessions the
\* timer committed on day 12 (23:50 for 60 s, 23:56 for 125 s)
InitTwoSessions ==
    /\ InitPage /\ InitClock
    /\ dbSubjects = {[id |-> 1, name |-> Math, color |-> "#6366f1",
                      createdAt |-> StartNow - DayMs]}
    /\ dbTasks = {} /\ dbGoal = NoGoal
    /\ dbSessions = {[id |-> 2, subjectId |-> 1, date |-> 12, startTime |-> 1430,
                      endTime |-> 1431, duration |-> 60],
                     [id |-> 3, subjectId |-> 1, date |-> 12, startTime |-> 1436,
                      endTime |-> 1438, duration |-> 125]}
    /\ subjects = dbSubjects /\ tasks = {} /\ sessions = dbSessions /\ goal = NoGoal
    /\ idCounter = 3

FormSpec == InitTwoSessions /\ [][SessionNext]_vars

\* the stopwatch and the subject cascade
CascadeNext ==
    \/ TimerNext
    \/ \E id \in 1..MaxIds, n \in 0..MaxIds, k \in 0..LoadReads :
            deleteCurrentSubject(id, n, k)

CascadeSpec == InitOneSubject /\ [][CascadeNext]_vars

\* the page 65 s into a visit: the timer ran on the stored subject from
\* StartNow, ticked, and was paused; the store has not yet answered the write
\* of its session
PausedAt == StartNow + 45 * SecMs + 500 + 20 * SecMs

PausedTimerState ==
    [subjectId |-> 1, startTime |-> StartNow, elapsedSeconds |-> 65,
     isRunning |-> FALSE, intervalId |-> 1]

InitPausedTimer ==
    /\ dbSubjects = {[id |-> 1, name |-> Math, color |-> "#6366f1",
                      createdAt |-> StartNow - DayMs]}
    /\ dbTasks = {} /\ dbSessions = {} /\ dbGoal = NoGoal
    /\ subjects = dbSubjects /\ tasks = {} /\ sessions = {} /\ goal = NoGoal
    /\ timerState = PausedTimerState
    /\ intervals = {}
    /\ disabled = [start |-> TRUE, pause |-> FALSE, reset |-> FALSE]
    /\ pendingSaves = <<TimerSessionData(2, PausedTimerState, PausedAt)>>
    /\ now = PausedAt /\ tzOffset = 0
    /\ idCounter = 2
    /\ failures = 0
    /\ lastOp = Op("pauseTimer", 1, "ok")
    /\ hist = [pausedElapsed |-> 65, committed |-> FALSE, failedElapsed |-> NoPause]

\* every handler that writes to the store, from that page on; the goal form
\* is left empty or filled with one goal
MutationNext ==
    \/ \E ok \in BOOLEAN, k \in 0..LoadReads : commitComplete(ok, k)
    \/ SubjectNext
    \/ TaskNext
    \/ \E name \in GoalNames, target \in {0, 20}, ok \in BOOLEAN, k \in 0..LoadReads :
            saveGoal(name, target, 0, ok, k)
    \/ \E ok \in BOOLEAN, k \in 0..LoadReads : resetGoal(ok, k)
    \/ SessionNext

MutationSpec == InitPausedTimer /\ [][MutationNext]_vars

\* the goal panel: a first visit at some time of a day before, on or after
\* the dates the goal form offers
GoalDays == {11, 12, 20, 21}
GoalTimes == {0, 12 * 60 * MinMs}

InitGoal ==
    /\ InitPage
    /\ now \in {d * DayMs + t : d \in GoalDays, t \in GoalTimes}
    /\ tzOffset \in TzOffsets
    /\ dbSubjects = {} /\ dbTasks = {} /\ dbSessions = {} /\ dbGoal = NoGoal
    /\ subjects = {} /\ tasks = {} /\ sessions = {} /\ goal = NoGoal
    /\ idCounter = 0

GoalSpec == InitGoal /\ [][GoalNext \/ renderGoal]_vars

\* the stopwatch on a later visit with two subjects and a session of each in
\* the log (23:50 for 60 s, 23:56 for 125 s)
InitTwoSubjects ==
    /\ InitPage /\ InitClock
    /\ dbSubjects = {[id |-> 1, name |-> Math, color |-> "#6366f1",
                      createdAt |-> StartNow - DayMs],
                     [id |-> 2, name |-> Bio, color |-> "#6366f1",
                      createdAt |-> StartNow - DayMs + SecMs]}
    /\ dbTasks = {} /\ dbGoal = NoGoal
    /\ dbSessions = {[id |-> 11, subjectId |-> 1, date |-> 12, startTime |-> 1430,
                      endTime |-> 1431, duration |-> 60],
                     [id |-> 12, subjectId |-> 2, date |-> 12, startTime |-> 1436,
                      endTime |-> 1438, duration |-> 125]}
    /\ subjects = dbSubjects /\ tasks = {} /\ sessions = dbSessions /\ goal = NoGoal
    /\ idCounter = 2

TotalsSpec == InitTwoSubjects /\ [][TimerNext]_vars

\* the stopwatch across page reloads
ReloadSpec == InitOneSubject /\ [][TimerNext \/ ReloadNext]_vars

\* the dashboard over a loaded session log
InitStreak ==
    /\ InitPage
    /\ now \in {d * DayMs + t : d \in StreakTodays, t \in StreakTimes}
    /\ tzOffset \in TzOffsets
    /\ dbSubjects = {[id |-> 1, name |-> Math, color |-> "#6366f1",
                      createdAt |-> 8 * DayMs]}
    /\ dbTasks = {} /\ dbGoal = NoGoal
    /\ \E count \in [StreakDays -> 0..MaxPerDay] : dbSessions = SessionLog(count)
    /\ subjects = dbSubjects /\ tasks = {} /\ sessions = dbSessions /\ goal = NoGoal
    /\ idCounter = MaxIds

StreakSpec == InitStreak /\ [][renderDashboard]_vars

\* ------------------------------------------------------------- statistics
\* the periods of the statistics view
Periods == {"week", "month", "all"}

\* the calendar of the model: day 1 is 1 January 2024, so days 1..31 are
\* January, 32..60 February and 61..91 March; the length of the month
\* before the month of a day
DaysInPreviousMonth(day) == IF day >= 61 THEN 29 ELSE 31

\* new Date(date) >= ago, where ago is now moved back n calendar days at
\* the same local time: date * DayMs + tzOffset >= now - n * DayMs, computed
\* in days and milliseconds of the day, which keeps it within 32-bit
\* integers (the time of day and the offset are each less than a day)
NotBefore(date, n) ==
    LET k == date + n - formatDate(now)
    IN IF k >= 2 THEN TRUE
       ELSE IF k <= 0 - 2 THEN FALSE
       ELSE k * DayMs + tzOffset >= now % DayMs

\* the sessions renderStats keeps for a period.  week:
\* weekAgo.setDate(weekAgo.getDate() - 7), the same local time a week ago;
\* month: monthAgo.setMonth(monthAgo.getMonth() - 1), the same day of the
\* month and local time in the month before (a day the month lacks runs
\* over into the next); then sessions.filter(s => new Date(s.date) >= ago)
PeriodSessions(period) ==
    IF period = "week" THEN {s \in sessions : NotBefore(s.date, 7)}
    ELSE IF period = "month"
    THEN {s \in sessions : NotBefore(s.date, DaysInPreviousMonth(formatDate(now)))}
    ELSE sessions

\* the total study time renderStats shows
StatsTotalTime(period) == SumDurations(PeriodSessions(period))

\* period === 'week' ? 7 : period === 'month' ? 30 : 90
ChartLength(period) ==
    IF period = "week" THEN 7 ELSE IF period = "month" THEN 30 ELSE 90

\* a chart whose window ends yesterday
ChartDaysToYesterday(days) == {formatDate(now) - i : i \in 1..days}

\* the keys of dailyData: date.setDate(date.getDate() - i) steps back i
\* calendar days from today, i = days - 1 .. 0, and formatDate names the day
ChartDays(days) == {formatDate(now) - i : i \in 0..(days - 1)}

\* dailyData of renderDailyChart: every day of the window initialised to 0,
\* then the duration of each session handed over added to the bucket of
\* its date, if the window has it
dailyData(chartSessions, days) ==
    [d \in ChartDays(days) |-> SumDurations({s \in chartSessions : s.date = d})]

\* renderStats for the period chosen with the period buttons; it hands the
\* sessions it kept to renderDailyChart
renderStats(period) ==
    /\ lastOp' = Op("renderStats", period, "ok")
    /\ UNCHANGED <<dbVars, memVars, timerVars, clock, idCounter, failures, hist>>

\* the chart renderStats draws for a period
StatsChart(period) == dailyData(PeriodSessions(period), ChartLength(period))

\* the statistics view over a session log: up to MaxPerDay sessions on each
\* of tomorrow, today and the days 6, 7, 29 and 30 before it, read early in
\* the night or at noon of 12 or 20 January, west of, at, or east of
\* Greenwich
StatsTodays == {12, 20}
StatsTimes == {30 * MinMs, 12 * 60 * MinMs}
StatsOffsets == {1, 0, 0 - 6, 0 - 7, 0 - 29, 0 - 30}

StatsLog(today, count) ==
    UNION {{[id |-> 10 * (o + 40) + j, subjectId |-> 1, date |-> today + o,
             startTime |-> 600, endTime |-> 600 + j, duration |-> 60 * j] :
                j \in 1..count[o]} : o \in StatsOffsets}

InitStats ==
    /\ InitPage
    /\ now \in {d * DayMs + t : d \in StatsTodays, t \in StatsTimes}
    /\ tzOffset \in TzOffsets
    /\ dbSubjects = {[id |-> 1, name |-> Math, color |-> "#6366f1",
                      createdAt |-> 8 * DayMs]}
    /\ dbTasks = {} /\ dbGoal = NoGoal
    /\ \E count \in [StatsOffsets -> 0..MaxPerDay] :
            dbSessions = StatsLog(formatDate(now), count)
    /\ subjects = dbSubjects /\ tasks = {} /\ sessions = dbSessions /\ goal = NoGoal
    /\ idCounter = MaxIds

StatsSpec == InitStats /\ [][\E period \in Periods : renderStats(period)]_vars

\* the delete buttons on a later visit: the store holds two sessions, two
\* tasks and a goal
InitFilled ==
    /\ InitPage /\ InitClock
    /\ dbSubjects = {[id |-> 1, name |-> Math, color |-> "#6366f1",
                      createdAt |-> StartNow - DayMs]}
    /\ dbTasks = {[id |-> 4, subjectId |-> 1, description |-> <<"r">>,
                   completed |-> FALSE, createdAt |-> StartNow - DayMs + SecMs],
                  [id |-> 5, subjectId |-> 1, description |-> <<"r">>,
                   completed |-> TRUE, createdAt |-> StartNow - DayMs + 2 * SecMs]}
    /\ dbSessions = {[id |-> 2, subjectId |-> 1, date |-> 12, startTime |-> 1430,
                      endTime |-> 1431, duration |-> 60],
                     [id |-> 3, subjectId |-> 1, date |-> 12, startTime |-> 1436,
                      endTime |-> 1438, duration |-> 125]}
    /\ dbGoal = [name |-> <<"E">>, targetDate |-> 20, startDate |-> 12]
    /\ subjects = dbSubjects /\ tasks = dbTasks /\ sessions = dbSessions
    /\ goal = dbGoal
    /\ idCounter = 5

DeleteNext ==
    \/ \E id \in Ids(tasks), ok \in BOOLEAN, k \in 0..LoadReads : deleteTask(id, ok, k)
    \/ \E id \in Ids(sessions), ok \in BOOLEAN, k \in 0..LoadReads :
            deleteSession(id, ok, k)
    \/ \E ok \in BOOLEAN, k \in 0..LoadReads : resetGoal(ok, k)

DeleteSpec == InitFilled /\ [][DeleteNext]_vars

\* the stopwatch and the edit form of the sessions it wrote
EditNext ==
    \/ TimerNext
    \/ \E id \in 1..MaxIds, ok \in BOOLEAN, k \in 0..LoadReads :
            openSessionModalThenSave(id, ok, k)

EditSpec == InitOneSubject /\ [][EditNext]_vars

\* ------------------------------------------------------------------ claims
\* C1: in every reachable state every record of the sessions store has a
\* duration > 0, whether the session form (saveSession) or the timer's commit
\* (saveTimerSession) wrote it.
C1_DurationPositive == \A s \in dbSessions : s.duration > 0

\* C1 witness: the store holds a session the timer committed and the form
\* then rewrote (sessions are created by the timer only).
C1_Witness ==
    /\ lastOp.op = "saveSession" /\ lastOp.result = "ok"
    /\ \E s \in dbSessions : s.id = lastOp.arg /\ s.startTime = 600 /\ s.duration = 60

\* C2: saveSession with a filled form whose end time is not after its start
\* time (same date) issues no store call and leaves the sessions store and
\* the sessions in memory, like every other store and collection, as they
\* were.
C2_RejectedNoMutation ==
    [][\A id \in 1..MaxIds, subjectId \in 1..MaxIds, form \in SessionForms,
         ok \in BOOLEAN, k \in 0..LoadReads :
          ( /\ form.date # Null
            /\ form.startTime # EmptyTime
            /\ form.endTime # EmptyTime
            /\ form.endTime <= form.startTime
            /\ saveSession(id, subjectId, form.date, form.startTime, form.endTime, ok, k) )
          => /\ UNCHANGED <<dbVars, memVars, pendingSaves, failures>>
             /\ lastOp'.result = "rejected"]_vars

\* C2 witness: the form was rejected while the store held a session.
C2_Witness ==
    /\ lastOp.op = "saveSession" /\ lastOp.result = "rejected"
    /\ lastOp.arg \in Ids(dbSessions)

\* C3: once deleteCurrentSubject(S) has completed, the store holds no subject
\* with id S, no task and no session with subjectId S, however many it held
\* before the call.  The code deletes the tasks and sessions it finds in
\* memory, so the statement fails when the store holds one memory lacks.
C3_CascadeComplete ==
    (lastOp.op = "deleteCurrentSubject" /\ lastOp.result = "ok")
        => /\ lastOp.arg \notin Ids(dbSubjects)
           /\ \A t \in dbTasks : t.subjectId # lastOp.arg
           /\ \A s \in dbSessions : s.subjectId # lastOp.arg

\* C4: whenever no write is in flight, every task and every session of the
\* store belongs to a subject of the store; stated here for the runs in
\* which no store call has failed.  The timer keeps the subjectId of a
\* subject deleted under it and commits a session for it.
C4_ReferentialIntegrity ==
    (pendingSaves = <<>> /\ failures = 0)
        => /\ \A t \in dbTasks : t.subjectId \in Ids(dbSubjects)
           /\ \A s \in dbSessions : s.subjectId \in Ids(dbSubjects)

\* the number of consecutive calendar days ending with `day` that each have
\* a session
RunEnding(D, day) ==
    CHOOSE n \in 0..Cardinality(D) :
        /\ \A j \in 0..(n - 1) : day - j \in D
        /\ day - n \notin D

Today == formatDate(now)

\* C5: when the latest session date is yesterday (none today), the streak
\* the dashboard shows is nonzero: the number of consecutive session days
\* ending yesterday; the single date 2024-01-11 read on 2024-01-12 gives 1.
\* Stated here for a browser on UTC.  The code's walk starts at today and
\* ends at once: it shows 0.
C5_YesterdayCounts ==
    ( /\ lastOp.op = "renderDashboard"
      /\ tzOffset = 0
      /\ DatesWithSessions # {}
      /\ LatestDate(DatesWithSessions) = Today - 1 )
        => /\ lastOp.arg = RunEnding(DatesWithSessions, Today - 1)
           /\ lastOp.arg > 0
           /\ (DatesWithSessions = {11} /\ Today = 12) => lastOp.arg = 1

\* C6: when a session is dated today, the streak shown is the length of the
\* maximal run of consecutive calendar days ending today that each have a
\* session, a date counting once however many sessions it has; the dates
\* 2024-01-10..12 read on 2024-01-12 give 3.
C6_RunEndingToday ==
    (lastOp.op = "renderDashboard" /\ Today \in DatesWithSessions)
        => /\ lastOp.arg = RunEnding(DatesWithSessions, Today)
           /\ (DatesWithSessions = {10, 11, 12} /\ Today = 12) => lastOp.arg = 3

\* C6 witness: the dates 10, 11, 12, two sessions on one of them, read on
\* day 12: 3 is shown.
C6_Witness ==
    /\ lastOp.op = "renderDashboard" /\ lastOp.arg = 3
    /\ DatesWithSessions = {10, 11, 12} /\ Today = 12
    /\ Cardinality(sessions) > 3

\* C7: with no session, or with a latest session date more than one day
\* before today, the streak shown is 0; the dates 2024-01-10..12 read on
\* 2024-01-14 give 0.
C7_BrokenIsZero ==
    ( /\ lastOp.op = "renderDashboard"
      /\ \/ sessions = {}
         \/ LatestDate(DatesWithSessions) < Today - 1 )
        => lastOp.arg = 0

\* C7 witness: the dates 10, 11, 12 read on day 14: 0 is shown.
C7_Witness ==
    /\ lastOp.op = "renderDashboard" /\ lastOp.arg = 0
    /\ DatesWithSessions = {10, 11, 12} /\ Today = 14

\* C8 as stated: start() after pause() resumes from the elapsedSeconds of
\* the pause, whatever that value was.  Violated after a pause of a minute
\* or more whose commit succeeded: the commit zeroes elapsedSeconds.
C8_ResumesFromPausedValue ==
    [][(startTimer /\ ~timerState.isRunning /\ hist.pausedElapsed # NoPause)
        => /\ timerState'.isRunning
           /\ timerState'.elapsedSeconds = hist.pausedElapsed
           /\ ElapsedAt(now, timerState'.startTime) = hist.pausedElapsed]_vars

\* C8 amended: start() after pause() resumes from the elapsedSeconds of the
\* pause unless a commit has succeeded since the pause; after a successful
\* commit it resumes from zero.
C8_ResumesUnlessCommitted ==
    [][(startTimer /\ ~timerState.isRunning /\ hist.pausedElapsed # NoPause)
        => LET from == IF hist.committed THEN 0 ELSE hist.pausedElapsed
           IN /\ timerState'.isRunning
              /\ timerState'.elapsedSeconds = from
              /\ ElapsedAt(now, timerState'.startTime) = from]_vars

\* C8 witness: the timer was started again after a pause below one minute
\* and holds the seconds of that pause (reset and commit leave zero).
C8_Witness ==
    /\ lastOp.op = "startTimer" /\ lastOp.result = "ok"
    /\ timerState.isRunning
    /\ timerState.elapsedSeconds \in 1..(MinSessionSeconds - 1)
    /\ ElapsedAt(now, timerState.startTime) = timerState.elapsedSeconds

\* C9: pause() on a running timer writes nothing itself and, below 60
\* elapsed seconds, issues no write; from 60 on it issues exactly one write,
\* of a record with a new id whose duration is elapsedSeconds, whose
\* subjectId is the timer's and whose date is today; when the store takes
\* that write, the sessions store gains exactly that record and no record
\* it held changes.
C9_PauseWritesOneSession ==
    [][ /\ (pauseTimer /\ timerState.isRunning)
            => /\ UNCHANGED dbVars
               /\ IF timerState.elapsedSeconds < 60
                  THEN pendingSaves' = pendingSaves
                  ELSE /\ Len(pendingSaves') = Len(pendingSaves) + 1
                       /\ SubSeq(pendingSaves', 1, Len(pendingSaves)) = pendingSaves
                       /\ LET rec == pendingSaves'[Len(pendingSaves')]
                          IN /\ rec.duration = timerState.elapsedSeconds
                             /\ rec.subjectId = timerState.subjectId
                             /\ rec.date = Today
                             /\ rec.id \notin Ids(dbSessions)
                             /\ \A i \in 1..Len(pendingSaves) : pendingSaves[i].id # rec.id
        /\ (\E k \in 0..LoadReads : commitComplete(TRUE, k))
            => /\ Head(pendingSaves) \notin dbSessions
               /\ dbSessions' = dbSessions \cup {Head(pendingSaves)}
               /\ \A s \in dbSessions : s.id # Head(pendingSaves).id ]_vars

\* C9 witness: the store took the record of a pause at 60 seconds or more,
\* for the subject the timer is on.
C9_Witness ==
    /\ lastOp.op = "commitComplete" /\ lastOp.result = "ok"
    /\ \E s \in dbSessions :
        /\ s.id = lastOp.arg /\ s.duration >= 60
        /\ s.subjectId = timerState.subjectId

\* C10: when the store refuses the write of a pause, no store, no collection
\* in memory and no field of the timer changes; if the refusal follows the
\* pause directly, the timer is not running and still holds the subjectId
\* and the elapsedSeconds of the pause.  (That the time can still be
\* committed is the reachability of C10_Witness.)
C10_FailedCommitKeepsTime ==
    [][commitComplete(FALSE, LoadReads)
        => /\ UNCHANGED <<dbVars, memVars, timerState>>
           /\ (lastOp.op = "pauseTimer" /\ lastOp.result = "ok" /\ Len(pendingSaves) = 1)
                => /\ ~timerState'.isRunning
                   /\ timerState'.elapsedSeconds = Head(pendingSaves).duration
                   /\ timerState'.elapsedSeconds = hist.pausedElapsed
                   /\ timerState'.subjectId = Head(pendingSaves).subjectId]_vars

\* C10 witness: after a refused commit, a later start() and pause() had the
\* store take a record that holds at least the seconds of the refused one.
C10_Witness ==
    /\ hist.failedElapsed # NoPause
    /\ lastOp.op = "commitComplete" /\ lastOp.result = "ok"
    /\ \E s \in dbSessions : s.id = lastOp.arg /\ s.duration >= hist.failedElapsed

\* C11: a reload while the timer holds a selected subject and a nonzero
\* elapsed time, running or paused, restores the timer's subject and elapsed
\* time.  The code keeps timerState in AppState only: the new AppState of
\* the reloaded page starts from the idle timer.
C11_TimerSurvivesReload ==
    [][(lastOp'.op = "reload" /\ timerState.subjectId # Null
            /\ timerState.elapsedSeconds > 0)
        => /\ timerState'.subjectId = timerState.subjectId
           /\ timerState'.elapsedSeconds = timerState.elapsedSeconds]_vars

\* C12: when the store write of a mutation fails, the subjects, tasks,
\* sessions and goal in memory are what they were before the handler ran.
\* toggleTask flips the task in memory before it awaits the write.
C12_NoOptimisticApply ==
    [][lastOp'.result = "failed" => UNCHANGED memVars]_vars

\* C13: an edit or a toggle addressed to an id the store no longer holds
\* (toggleTask, saveSession, and saveTask or saveSubject when they edit) is
\* refused and writes nothing.  The handlers take the record from memory and
\* put it: a record memory still shows is written back under the deleted id.
C13_EditOfDeletedRefused ==
    [][( \/ lastOp'.op = "toggleTask" /\ lastOp'.arg \notin Ids(dbTasks)
         \/ lastOp'.op = "saveSession" /\ lastOp'.arg \notin Ids(dbSessions)
         \/ /\ lastOp'.op = "saveTask" /\ idCounter' = idCounter
            /\ lastOp'.arg # Null /\ lastOp'.arg \notin Ids(dbTasks)
         \/ /\ lastOp'.op = "saveSubject" /\ idCounter' = idCounter
            /\ lastOp'.arg # Null /\ lastOp'.arg \notin Ids(dbSubjects) )
        => /\ UNCHANGED dbVars
           /\ lastOp'.result # "ok"]_vars

\* the handlers that write to the store
MutatingOps ==
    {"saveSubject", "saveTask", "toggleTask", "deleteTask", "saveGoal", "resetGoal",
     "saveSession", "deleteSession", "deleteCurrentSubject", "commitComplete"}

C15_FailedLoadKeepsSnapshot ==
    [][( /\ lastOp'.op \in MutatingOps \ {"toggleTask"}
         /\ lastOp'.result = "ok"
         /\ failures' = failures + 1 )
        => UNCHANGED memVars]_vars

\* C16: when the goal's target date is not after its start date, the goal
\* panel shows 100 percent elapsed; when the two dates are equal it also
\* shows 0 days remaining; both whatever the current time.  The code divides
\* by the span: before the start date it shows 0 percent (and the days up to
\* the target), at the very start of an equal pair it prints NaN.
C16_NoSpanIsFullyElapsed ==
    (lastOp.op = "renderGoal" /\ lastOp.result = "ok" /\ GoalTotalTime <= 0)
        => /\ lastOp.arg = 100
           /\ goal.startDate = goal.targetDate => daysRemaining = 0

\* the seconds of the sessions in memory of a subject, counted one by one
SecondsOf(subjectId) ==
    Cardinality(UNION {{<<z.id, n>> : n \in 1..z.duration} :
                            z \in {x \in sessions : x.subjectId = subjectId}})

\* the timer's commit put a new record into the sessions store
CommitAddsSession ==
    /\ lastOp'.op = "commitComplete" /\ lastOp'.result = "ok"
    /\ lastOp'.arg \notin Ids(dbSessions)

C18_SubjectRoundTrip ==
    [][(lastOp'.op = "saveSubject" /\ lastOp'.result = "ok")
        => \A eid \in 0..MaxIds, nameInput \in Names, color \in Colors, k \in 0..LoadReads :
            ( /\ saveSubject(eid, nameInput, color, TRUE, k)
              /\ eid # Null => eid \in Ids(dbSubjects) )
            => LET id == lastOp'.arg
                   stored == {r \in dbSubjects' : r.id = id}
                   new == Find(dbSubjects', id)
               IN /\ Cardinality(stored) = 1
                  /\ new.name = Trim(nameInput) /\ new.color = color
                  /\ dbSubjects' \ {new} = {r \in dbSubjects : r.id # id}
                  /\ IF eid # Null
                     THEN /\ id = eid
                          /\ new.createdAt = Find(dbSubjects, eid).createdAt
                          /\ Cardinality(dbSubjects') = Cardinality(dbSubjects)
                     ELSE /\ id \notin Ids(dbSubjects)
                          /\ new.createdAt = now
                          /\ Cardinality(dbSubjects') = Cardinality(dbSubjects) + 1
                  /\ k >= 1 => new \in subjects']_vars

\* C18 witness: the stored subject was renamed; the store holds it under
\* its id with the trimmed new name and its first createdAt, next to a
\* subject added on this visit.
C18_Witness ==
    /\ lastOp.op = "saveSubject" /\ lastOp.result = "ok" /\ lastOp.arg = 1
    /\ \E r \in dbSubjects :
        r.id = 1 /\ r.name = Bio /\ r.createdAt = StartNow - DayMs
    /\ \E r \in dbSubjects : r.id # 1 /\ r.createdAt = now

\* a text of no character other than spaces
IsBlank(text) == \A i \in 1..Len(text) : text[i] = " "

\* a refusal: reported as such, with no store call and nothing changed
Refused ==
    /\ lastOp'.result = "rejected"
    /\ UNCHANGED <<dbVars, memVars, failures, pendingSaves>>

\* C19: the subject form with an empty or whitespace-only name, the task
\* form with an empty or whitespace-only description and the goal form with
\* an empty or whitespace-only name or no target date are refused before
\* any store call: the four stores and the four in-memory collections are
\* unchanged.
C19_RefusalsWriteNothing ==
    [][/\ lastOp'.op = "saveSubject"
          => \A eid \in 0..MaxIds, nameInput \in {x \in Names : IsBlank(x)},
                color \in Colors, ok \in BOOLEAN, k \in 0..LoadReads :
                saveSubject(eid, nameInput, color, ok, k) => Refused
       /\ lastOp'.op = "saveTask"
          => \A subjectId \in 1..MaxIds, id \in 0..MaxIds,
                d \in {x \in Descriptions : IsBlank(x)},
                ok \in BOOLEAN, k \in 0..LoadReads :
                saveTask(subjectId, id, d, ok, k) => Refused
       /\ lastOp'.op = "saveGoal"
          => \A name \in GoalNames, target \in GoalTargets, start \in GoalStarts,
                ok \in BOOLEAN, k \in 0..LoadReads :
                (IsBlank(name) \/ target = Null)
                => (saveGoal(name, target, start, ok, k) => Refused)]_vars

\* C19 witness: a subject form was refused while the store holds a task and
\* a goal, and memory mirrors the store.
C19_Witness ==
    /\ lastOp.op = "saveSubject" /\ lastOp.result = "rejected"
    /\ dbTasks # {} /\ dbGoal # NoGoal
    /\ memVars = dbVars

\* children before parent
StoreRank(store) ==
    CASE store = "tasks" -> 1 [] store = "sessions" -> 2 [] store = "subjects" -> 3

\* C20: deleteCurrentSubject on S issues its deletes of tasks before its
\* deletes of sessions and those before the one delete of S, which is the
\* last; every task and session it lists for S gets a delete.  When a store
\* call of the cascade fails, S is still in the store, a session has gone
\* only if every listed task has, no store has gained a record, and so no
\* task or session of the store has lost its subject.
C20_ChildrenBeforeParent ==
    [][lastOp'.op = "deleteCurrentSubject"
        => LET S == lastOp'.arg
               deletes == CascadeDeletes(S)
           IN /\ \A i, j \in 1..Len(deletes) :
                    i < j => StoreRank(deletes[i].store) <= StoreRank(deletes[j].store)
              /\ deletes[Len(deletes)] = [store |-> "subjects", key |-> S]
              /\ \A i \in 1..(Len(deletes) - 1) : deletes[i].store # "subjects"
              /\ DeletedKeys(deletes, Len(deletes), "tasks") = Ids(getTasksForSubject(S))
              /\ DeletedKeys(deletes, Len(deletes), "sessions") = Ids(getSessionsForSubject(S))
              /\ lastOp'.result = "failed"
                 => /\ dbSubjects' = dbSubjects
                    /\ dbTasks' \subseteq dbTasks /\ dbSessions' \subseteq dbSessions
                    /\ dbSessions' # dbSessions
                       => Ids(getTasksForSubject(S)) \cap Ids(dbTasks') = {}
                    /\ \A r \in dbTasks' \cup dbSessions' :
                        r.subjectId \in Ids(dbSubjects) => r.subjectId \in Ids(dbSubjects')]_vars

\* C20 witness: the cascade on subject 1 stopped after its task and before
\* its session: the task is gone from the store, the session and the subject
\* are still there.
C20_Witness ==
    /\ lastOp = Op("deleteCurrentSubject", 1, "failed")
    /\ \E t \in tasks : t.subjectId = 1 /\ t.id \notin Ids(dbTasks)
    /\ \E s \in dbSessions : s.subjectId = 1
    /\ 1 \in Ids(dbSubjects)

\* C21: the duration of the session a pause commits is the time elapsed
\* since startTime at the moment of the pause,
\* floor((pause time - startTime) / 1000), whenever the tick last ran.
\* The code commits state.elapsedSeconds, the value the last tick left.
C21_CommitsClockElapsed ==
    [][(lastOp'.op = "pauseTimer" /\ lastOp'.result = "ok")
        => pendingSaves'[Len(pendingSaves')].duration
            = ElapsedAt(now, timerState.startTime)]_vars

\* C22: while the timer runs, elapsedSeconds equals
\* floor((now - startTime) / 1000) at every moment, and from one moment of
\* a run to the next it does not decrease.
C22_ElapsedFollowsClock ==
    [][/\ timerState'.isRunning
          => timerState'.elapsedSeconds = ElapsedAt(now', timerState'.startTime)
       /\ (timerState.isRunning /\ timerState'.isRunning)
          => timerState'.elapsedSeconds >= timerState.elapsedSeconds]_vars

\* the second half of C22 alone: no step between two running states lowers
\* elapsedSeconds
C22_NeverDecreasesRunning ==
    [][(timerState.isRunning /\ timerState'.isRunning)
        => timerState'.elapsedSeconds >= timerState.elapsedSeconds]_vars

\* C23: startTimer on a running timer changes no field of the timer state
\* and schedules nothing; on a timer that is not running it sets isRunning,
\* sets startTime to now - elapsedSeconds * 1000 and leaves elapsedSeconds
\* and subjectId as they were.
C23_StartOnlyWhenStopped ==
    [][lastOp'.op = "startTimer"
        => IF timerState.isRunning
           THEN UNCHANGED <<timerState, intervals>>
           ELSE /\ timerState'.isRunning
                /\ timerState'.startTime = now - timerState.elapsedSeconds * SecMs
                /\ timerState'.elapsedSeconds = timerState.elapsedSeconds
                /\ timerState'.subjectId = timerState.subjectId]_vars

\* C23 witness: Start was pressed on a timer that had been running for a
\* while (the subject select re-enables the button) and it runs on as before.
C23_Witness ==
    /\ lastOp = Op("startTimer", 1, "noop")
    /\ timerState.isRunning
    /\ timerState.elapsedSeconds > 0
    /\ now > timerState.startTime + timerState.elapsedSeconds * SecMs
    /\ Cardinality(intervals) = 1

\* C24: once the write of a session a pause committed has succeeded, the
\* timer is not running, elapsedSeconds is 0, startTime is the time of the
\* completion and subjectId is the subject of the session.
C24_CommitLeavesArmedAtZero ==
    (lastOp.op = "commitComplete" /\ lastOp.result = "ok")
        => /\ ~timerState.isRunning
           /\ timerState.elapsedSeconds = 0
           /\ timerState.startTime = now
           /\ \A s \in dbSessions :
                s.id = lastOp.arg => timerState.subjectId = s.subjectId

\* the timer as resetTimer leaves it
ResetState ==
    /\ ~timerState.isRunning
    /\ timerState.elapsedSeconds = 0
    /\ timerState.startTime = Null
    /\ intervals = {}

\* C25: resetTimer writes nothing to the store, queues no write and leaves
\* the timer not running, with elapsedSeconds 0, startTime null and no
\* callback scheduled; the timer stays so through every step other than a
\* startTimer, the completion of an earlier pause's write included.
C25_ResetHolds ==
    [][/\ lastOp'.op = "resetTimer"
          => ResetState' /\ UNCHANGED <<dbVars, memVars, pendingSaves>>
       /\ (ResetState /\ lastOp'.op # "startTimer") => ResetState']_vars

\* C26: pauseTimer on a timer that is not running changes no field of the
\* timer state, queues no write and writes nothing to the store; so a
\* second pause, pressed while the write of the first is awaited, adds no
\* second session.
C26_PauseOnlyWhenRunning ==
    [][(lastOp'.op = "pauseTimer" /\ ~timerState.isRunning)
        => UNCHANGED <<timerState, intervals, pendingSaves, idCounter, dbVars, memVars>>]_vars

\* C26 witness: Pause was pressed again while the write of the first pause
\* is still awaited; one write is pending, for the 65 s of the run.
C26_Witness ==
    /\ lastOp = Op("pauseTimer", 1, "noop")
    /\ Len(pendingSaves) = 1
    /\ pendingSaves[1].duration = timerState.elapsedSeconds
    /\ timerState.elapsedSeconds >= MinSessionSeconds
    /\ dbSessions = {}

QuietTimerOps == {"startTimer", "tick", "resetTimer", "onTimerSubjectChange"}

\* C29: startTimer, the tick, resetTimer and the subject select leave the
\* four stores and the four in-memory collections as they are and queue no
\* write; of the timer's steps only the completion of a pause's write
\* changes a store or a collection, and only a pause queues a write.
C29_OnlyCommitTouchesData ==
    [][/\ lastOp'.op \in QuietTimerOps
          => UNCHANGED <<dbVars, memVars, pendingSaves, idCounter>>
       /\ (dbVars' # dbVars \/ memVars' # memVars) => lastOp'.op = "commitComplete"
       /\ Len(pendingSaves') > Len(pendingSaves) => lastOp'.op = "pauseTimer"]_vars

\* C29 witness: the timer was reset after a run of 65 s had been committed;
\* the session is in the store and in memory as the commit left it.
C29_Witness ==
    /\ lastOp.op = "resetTimer"
    /\ \E s \in dbSessions : s.duration = 65
    /\ sessions = dbSessions
    /\ pendingSaves = <<>>

\* C30: the session form, saved with every field filled and an end time
\* after its start time, leaves in the sessions store exactly one record
\* under the id of the session edited: its subjectId, date, startTime and
\* endTime are the form's, its duration is the seconds from startTime to
\* endTime on that date; every other record is as before, and when the
\* store already held the id the number of records is the same.
C30_SessionStoredAsEntered ==
    [][lastOp'.op = "saveSession"
        => \A id \in 1..MaxIds, subjectId \in 1..MaxIds, form \in SessionForms,
              k \in 0..LoadReads :
            ( /\ form.date # Null
              /\ form.startTime # EmptyTime
              /\ form.endTime # EmptyTime
              /\ form.endTime > form.startTime
              /\ saveSession(id, subjectId, form.date, form.startTime, form.endTime, TRUE, k) )
            => /\ {r \in dbSessions' : r.id = id}
                    = {[id |-> id, subjectId |-> subjectId, date |-> form.date,
                        startTime |-> form.startTime, endTime |-> form.endTime,
                        duration |-> (form.endTime - form.startTime) * 60]}
               /\ {r \in dbSessions' : r.id # id} = {r \in dbSessions : r.id # id}
               /\ id \in Ids(dbSessions)
                    => Cardinality(dbSessions') = Cardinality(dbSessions)]_vars

\* C30 witness: the session of 23:50 was edited to 10:00-10:01 of the same
\* day and the store holds it so, for 60 s, next to the other session,
\* which is as it was.
C30_Witness ==
    /\ lastOp = Op("saveSession", 2, "ok")
    /\ [id |-> 2, subjectId |-> 1, date |-> 12, startTime |-> 600,
        endTime |-> 601, duration |-> 60] \in dbSessions
    /\ [id |-> 3, subjectId |-> 1, date |-> 12, startTime |-> 1436,
        endTime |-> 1438, duration |-> 125] \in dbSessions
    /\ Cardinality(dbSessions) = 2

\* C31: whatever the start date, the target date and the time of reading,
\* the goal panel shows a number of days that is not negative and is the
\* days left to the target rounded up, a number of weeks that is the days
\* over 7 rounded up, and a percentage that is a number from 0 to 100.
C31_PanelWithinRange ==
    (lastOp.op = "renderGoal" /\ lastOp.result = "ok")
        => /\ daysRemaining >= 0
           /\ daysRemaining * DayMs >= GoalRemaining
           /\ daysRemaining > 0 => (daysRemaining - 1) * DayMs < GoalRemaining
           /\ weeksRemaining * 7 >= daysRemaining
           /\ weeksRemaining > 0 => (weeksRemaining - 1) * 7 < daysRemaining
           /\ lastOp.arg \in 0..100

\* the seconds of a set of sessions, counted one by one
CountSeconds(S) == Cardinality(UNION {{<<z.id, n>> : n \in 1..z.duration} : z \in S})

\* C32: the daily chart of a period has exactly as many buckets as the
\* period has days (7, 30, 90), one for each calendar day of the window
\* that ends today; the value of each bucket is the sum of the durations of
\* the sessions handed to the chart that are dated on its day, and 0 for a
\* day without one.
C32_ChartIsDense ==
    lastOp.op = "renderStats"
        => LET period == lastOp.arg
               days == ChartLength(period)
               today == formatDate(now)
               chart == StatsChart(period)
           IN /\ DOMAIN chart = (today - days + 1)..today
              /\ Cardinality(DOMAIN chart) = days
              /\ \A d \in DOMAIN chart :
                    chart[d] = CountSeconds({s \in PeriodSessions(period) : s.date = d})

\* C32 witness: the week's chart shows the 180 s of two sessions of today,
\* the 60 s of a session six days ago and nothing on the days between.
C32_Witness ==
    /\ lastOp.op = "renderStats" /\ lastOp.arg = "week"
    /\ StatsChart("week")[formatDate(now)] = 180
    /\ StatsChart("week")[formatDate(now) - 6] = 60
    /\ \A i \in 1..5 : StatsChart("week")[formatDate(now) - i] = 0

\* C33: a delete of a task or a session whose write succeeds removes from
\* its store the record under that key and no other, and changes no other
\* store; on a key the store does not hold it can succeed as well and
\* then leaves the store as it was, so that a second delete of the same
\* key adds nothing to the first.  The same for the goal: resetting it
\* leaves no goal, whether or not one was stored.
C33_DeleteIsIdempotent ==
    [][/\ (lastOp'.op = "deleteTask" /\ lastOp'.result = "ok")
          => /\ dbTasks' = {t \in dbTasks : t.id # lastOp'.arg}
             /\ Delete(dbTasks', lastOp'.arg) = dbTasks'
             /\ UNCHANGED <<dbSubjects, dbSessions, dbGoal>>
       /\ (lastOp'.op = "deleteSession" /\ lastOp'.result = "ok")
          => /\ dbSessions' = {x \in dbSessions : x.id # lastOp'.arg}
             /\ Delete(dbSessions', lastOp'.arg) = dbSessions'
             /\ UNCHANGED <<dbSubjects, dbTasks, dbGoal>>
       /\ (lastOp'.op = "resetGoal" /\ lastOp'.result = "ok")
          => /\ dbGoal' = NoGoal
             /\ UNCHANGED <<dbSubjects, dbTasks, dbSessions>>
       /\ \A id \in Ids(ListedTasks) \ Ids(dbTasks) :
            ENABLED deleteTask(id, TRUE, LoadReads)
       /\ \A id \in Ids(sessions) \ Ids(dbSessions) :
            ENABLED deleteSession(id, TRUE, LoadReads)
       /\ dbGoal = NoGoal => ENABLED resetGoal(TRUE, LoadReads)]_vars

\* C33 witness: session 2 was deleted, the list in memory kept it because
\* a read of the reload failed, and it was deleted again: the second delete
\* succeeded on a store that no longer held it, and session 3, the tasks
\* and the goal are still there.
C33_Witness ==
    /\ lastOp = Op("deleteSession", 2, "ok")
    /\ failures = 1
    /\ Ids(dbSessions) = {3} /\ sessions = dbSessions
    /\ Ids(dbTasks) = {4, 5}
    /\ dbGoal # NoGoal

\* C34: time committed by the stopwatch is never counted twice: the
\* durations of the sessions the timer wrote sum to no more than the time the
\* timer can have been running, which is at most the time since the page
\* was opened (the store was empty of sessions then).
C34_NoDoubleCounting ==
    SumDurations(dbSessions) * SecMs <= now - StartNow

\* C35: at most one tick callback is scheduled, and one is scheduled exactly
\* when the timer is running; while the timer is not running elapsedSeconds
\* changes only by a commit or a reset, and then to 0.
C35_OneTickWhenRunning ==
    /\ [](/\ Cardinality(intervals) <= 1
          /\ (intervals # {}) <=> timerState.isRunning
          /\ timerState.isRunning => intervals = {timerState.intervalId})
    /\ [][(~timerState.isRunning
            /\ timerState'.elapsedSeconds # timerState.elapsedSeconds)
           => /\ timerState'.elapsedSeconds = 0
              /\ lastOp'.op \in {"commitComplete", "resetTimer"}]_vars

\* C35 witness: a run of 45 s was paused: the timer is stopped, no tick is
\* scheduled and elapsedSeconds still reads 45.
C35_Witness ==
    /\ lastOp = Op("pauseTimer", 1, "short")
    /\ ~timerState.isRunning
    /\ intervals = {}
    /\ timerState.elapsedSeconds = 45

\* C36: a pause under one minute writes nothing and keeps elapsedSeconds; a
\* start continues from the kept count; a pause at a minute or more hands
\* the store one session of the whole count; and elapsedSeconds returns to
\* 0 only by a reset or a successful commit.
C36_ShortRunsAccumulate ==
    [][/\ (lastOp'.op = "pauseTimer" /\ lastOp'.result = "short")
          => /\ timerState.elapsedSeconds < MinSessionSeconds
             /\ timerState'.elapsedSeconds = timerState.elapsedSeconds
             /\ pendingSaves' = pendingSaves
             /\ dbSessions' = dbSessions
       /\ (lastOp'.op = "startTimer" /\ lastOp'.result = "ok")
          => /\ timerState'.elapsedSeconds = timerState.elapsedSeconds
             /\ ElapsedAt(now, timerState'.startTime) = timerState.elapsedSeconds
       /\ (lastOp'.op = "pauseTimer" /\ lastOp'.result = "ok")
          => /\ timerState.elapsedSeconds >= MinSessionSeconds
             /\ Len(pendingSaves') = Len(pendingSaves) + 1
             /\ pendingSaves'[Len(pendingSaves')].duration = timerState.elapsedSeconds
       /\ (timerState.elapsedSeconds # 0 /\ timerState'.elapsedSeconds = 0)
          => \/ lastOp'.op = "resetTimer"
             \/ lastOp'.op = "commitComplete" /\ lastOp'.result = "ok"]_vars

\* C36 witness: a run of 45 s was paused and resumed at once, so the run is
\* counted from half a second after the page opened; 20 s later the second
\* pause hands the store one session of 65 s.
C36_Witness ==
    /\ lastOp = Op("pauseTimer", 1, "ok")
    /\ timerState.startTime = StartNow + 500
    /\ now = StartNow + 65 * SecMs + 500
    /\ timerState.elapsedSeconds = 65
    /\ Len(pendingSaves) = 1
    /\ pendingSaves[1].duration = 65
    /\ dbSessions = {}

\* the seconds of the buckets of a chart, counted one by one
ChartSeconds(chart) ==
    Cardinality(UNION {{<<d, n>> : n \in 1..chart[d]} : d \in DOMAIN chart})

\* C37: for the week and the month the total study time shown equals the
\* sum of the buckets of the daily chart: every session counted in the
\* total is dated on a day of the chart, and every session dated on a day
\* of the chart is counted in the total.
C37_TotalIsChartSum ==
    (lastOp.op = "renderStats" /\ lastOp.arg \in {"week", "month"})
    => /\ StatsTotalTime(lastOp.arg) = ChartSeconds(StatsChart(lastOp.arg))
       /\ \A s \in PeriodSessions(lastOp.arg) :
              s.date \in ChartDays(ChartLength(lastOp.arg))
       /\ \A s \in sessions :
              s.date \in ChartDays(ChartLength(lastOp.arg))
              => s \in PeriodSessions(lastOp.arg)

\* C38: opening a stored session for edit and saving the form as it was
\* filled is accepted, and leaves the sessions store, durations included, as
\* it was; this covers the sessions the timer wrote.
C38_ResaveIsNoOp ==
    [][lastOp'.op = "saveSession"
       => /\ lastOp'.result \in {"ok", "failed"}
          /\ dbSessions' = dbSessions]_vars

====
